---- MODULE Spec2Model ----
(***************************************************************************)
(* A model of rust_hello_universe: the random producers of randolib        *)
(* (RandoA, RandoB and the shared GetRandoStuff::get_random_vec), the      *)
(* MyResult type of somelib, and the main function of hello.               *)
(*                                                                         *)
(* Four specifications share the variables:                                *)
(*   Spec / FairSpec  the program hello/src/main.rs                        *)
(*   SpecGuard        a RandoB called by an arbitrary client               *)
(*   SpecVec          GetRandoStuff::get_random_vec as a pure function     *)
(*   SpecResult       the methods of MyResult applied to one value         *)
(***************************************************************************)
EXTENDS Naturals, Sequences, FiniteSets

VARIABLES
    pc,          \* main: "batch", "single", "loop" or "exit"
    exit_code,   \* main: "none" while running, else the process status
    printed,     \* main: the last line written by println!
    rando_b,     \* the RandoB value: [last_item |-> Option<T>]
    draws,       \* the last MaxHist items the rng gave RandoB::get_random_item
    results,     \* the MyResult returned for each of those draws
    vec_len,     \* get_random_vec: the len argument
    vec_arr,     \* get_random_vec: the [T; 32] the rng generated
    vec_out,     \* get_random_vec: the Vec<T> returned
    vec_called,  \* get_random_vec: whether it has returned
    res,         \* the MyResult value under test
    res_moved,   \* whether a by-value method has consumed res
    res_out      \* the outcome of each method called on res

vars == <<pc, exit_code, printed, rando_b, draws, results,
          vec_len, vec_arr, vec_out, vec_called, res, res_moved, res_out>>

main_vars == <<pc, exit_code, printed>>
guard_vars == <<rando_b, draws, results>>
vec_vars == <<vec_len, vec_arr, vec_out, vec_called>>
res_vars == <<res, res_moved, res_out>>

(***************************************************************************)
(* Bounds of the model.                                                    *)
(***************************************************************************)
\* How many of the most recent draws (and their results) are remembered.
MaxHist == 4
\* The largest len passed to get_random_vec; above the 32 of the array.
MaxLen == 34

\* The values of T (char) the rng can generate.
Elems == {"a", "b", "c", "d"}

\* The unit value (), the T and E of the test it_should_panic.
Unit == "()"

Min(x, y) == IF x <= y THEN x ELSE y

Last(s) == s[Len(s)]

\* Append x to the window s, dropping the oldest entry beyond MaxHist.
Push(s, x) == IF Len(s) < MaxHist THEN Append(s, x) ELSE Append(Tail(s), x)

(***************************************************************************)
(* Option<T>                                                               *)
(***************************************************************************)
None == <<>>
Some(x) == <<x>>
is_none(o) == Len(o) = 0
is_some(o) == Len(o) = 1
\* Option::take leaves None behind and returns the old option.
take_option(o) == [left |-> None, taken |-> o]
\* Option::unwrap of a Some.
unwrap_option(o) == o[1]

(***************************************************************************)
(* somelib::error::Error                                                   *)
(***************************************************************************)
ConsecutiveRandom == "ConsecutiveRandom"

(***************************************************************************)
(* somelib::my_result::MyResult<T, E> and std::result::Result<T, E>        *)
(***************************************************************************)
MyOk(v) == [variant |-> "MyResult::Ok", payload |-> v]
MyErr(e) == [variant |-> "MyResult::Err", payload |-> e]
HostOk(v) == [variant |-> "Result::Ok", payload |-> v]
HostErr(e) == [variant |-> "Result::Err", payload |-> e]

\* What a call does: it returns a value or it panics with a message.
Return(v) == [kind |-> "return", val |-> v]
Panic(msg) == [kind |-> "panic", msg |-> msg]
NotCalled == [kind |-> "not called"]

is_ok(self) == IF self.variant = "MyResult::Ok" THEN TRUE ELSE FALSE

is_err(self) == IF self.variant = "MyResult::Err" THEN TRUE ELSE FALSE

\* unwrap that hands back the payload whatever the variant.
unwrap_any(self) == Return(self.payload)
unwrap(self) ==
    IF self.variant = "MyResult::Ok"
    THEN Return(self.payload)
    ELSE Panic("attempting to unwrap a nonexistent value")

\* todo!() and unimplemented!() both panic, with their own messages.
unwrap_err(self) ==
    IF self.variant = "MyResult::Err"
    THEN Panic("not yet implemented")
    ELSE Panic("not implemented")

\* A conversion whose Err arm builds Ok (it compiles when T = E).
from_always_ok(value) == HostOk(value.payload)
from(value) ==
    IF value.variant = "MyResult::Ok"
    THEN HostOk(value.payload)
    ELSE HostErr(value.payload)

(***************************************************************************)
(* randolib::GetRandoStuff::get_random_vec                                 *)
(***************************************************************************)
\* The length of the array rng.gen::<[T; 32]>() fills.
ArrayLen == 32

\* The arrays the rng is taken to generate: a up to position k, b after it.
ArraySamples ==
    { [i \in 1..ArrayLen |-> IF i <= k THEN a ELSE b] :
        a \in Elems, b \in Elems, k \in 0..ArrayLen }

into_iter(arr) == arr

\* take that lets every item through.
take_all(it, n) == it
take(it, n) == SubSeq(it, 1, Min(n, Len(it)))

collect(it) == it

get_random_vec(arr, len) == collect(take(into_iter(arr), len))

(***************************************************************************)
(* randolib::RandoB                                                        *)
(***************************************************************************)
\* A constructor that starts from a default item instead of None.
RandoB_new_default == [last_item |-> Some("a")]
RandoB_new == [last_item |-> None]

\* item is what rng.gen::<T>() gave this call.  The result is the RandoB
\* after the call and the value returned.
RandoB_get_random_item(self, item) ==
    IF is_none(self.last_item)
    THEN [self |-> self, ret |-> MyOk(item)]
    ELSE LET took == take_option(self.last_item)
             last_item == unwrap_option(took.taken)
             self1 == [self EXCEPT !.last_item = Some(item)]
         IN  [self |-> self1,
              ret |-> IF last_item = item
                      THEN MyErr(ConsecutiveRandom)
                      ELSE MyOk(item)]

(***************************************************************************)
(* hello::main                                                             *)
(***************************************************************************)
\* The body below without the loop around it: main returns Ok(()) after the
\* first item.
main_iteration_once(ret) ==
    LET r == from(ret)
    IN  IF r.variant = "Result::Err"
        THEN [pc |-> "exit", exit_code |-> "FAILURE", item |-> None]
        ELSE [pc |-> "exit", exit_code |-> "SUCCESS", item |-> Some(r.payload)]

\* One pass of the loop body on the value get_random_item returned: the
\* conversion into Result, the ? operator, and println!.  An Err returned
\* from main is reported as ExitCode::FAILURE.
main_iteration(ret) ==
    LET r == from(ret)
    IN  IF r.variant = "Result::Err"
        THEN [pc |-> "exit", exit_code |-> "FAILURE", item |-> None]
        ELSE [pc |-> "loop", exit_code |-> "none", item |-> Some(r.payload)]

MainInit ==
    /\ pc = "batch"
    /\ exit_code = "none"
    /\ printed = <<>>

GuardInit ==
    /\ rando_b = RandoB_new
    /\ draws = <<>>
    /\ results = <<>>

VecIdle ==
    /\ vec_len = 0
    /\ vec_arr = <<>>
    /\ vec_out = <<>>
    /\ vec_called = FALSE

ResIdle ==
    /\ res = MyOk(Unit)
    /\ res_moved = FALSE
    /\ res_out = [m \in {"is_ok", "is_err", "unwrap", "unwrap_err", "into"}
                    |-> NotCalled]

\* println!("RandoA says: {:?}", rando_a.get_random_vec(12));
MainBatch ==
    /\ pc = "batch"
    /\ \E arr \in ArraySamples :
         printed' = <<"RandoA says", get_random_vec(arr, 12)>>
    /\ pc' = "single"
    /\ UNCHANGED <<exit_code, guard_vars, vec_vars, res_vars>>

\* println!("RandoA says: {:?}", rando_a.get_random_item());
MainSingle ==
    /\ pc = "single"
    /\ \E item \in Elems : printed' = <<"RandoA says", item>>
    /\ pc' = "loop"
    /\ UNCHANGED <<exit_code, guard_vars, vec_vars, res_vars>>

\* One pass of the loop of main in which the rng gives item.
MainLoopWith(item) ==
    /\ pc = "loop"
    /\ LET call == RandoB_get_random_item(rando_b, item)
           step == main_iteration(call.ret)
       IN  /\ rando_b' = call.self
           /\ draws' = Push(draws, item)
           /\ results' = Push(results, call.ret)
           /\ pc' = step.pc
           /\ exit_code' = step.exit_code
           /\ printed' = IF is_some(step.item)
                         THEN <<"RandoB says", unwrap_option(step.item)>>
                         ELSE printed
    /\ UNCHANGED <<vec_vars, res_vars>>

MainLoop == \E item \in Elems : MainLoopWith(item)

Init == MainInit /\ GuardInit /\ VecIdle /\ ResIdle

Next == MainBatch \/ MainSingle \/ MainLoop

Spec == Init /\ [][Next]_vars

\* The rng gives the item it gave on the previous call.
DuplicateDraw == Len(draws) > 0 /\ MainLoopWith(Last(draws))

\* main runs while it can, and a draw equal to the previous one is not
\* avoided forever.
FairSpec == Init /\ [][Next]_vars /\ WF_vars(Next) /\ SF_vars(DuplicateDraw)

(***************************************************************************)
(* SpecGuard: a RandoB whose get_random_item is called again and again.    *)
(***************************************************************************)
MainIdle ==
    /\ pc = "idle"
    /\ exit_code = "none"
    /\ printed = <<>>

GuardCall ==
    /\ \E item \in Elems :
         LET call == RandoB_get_random_item(rando_b, item)
         IN  /\ rando_b' = call.self
             /\ draws' = Push(draws, item)
             /\ results' = Push(results, call.ret)
    /\ UNCHANGED <<main_vars, vec_vars, res_vars>>

InitGuard == MainIdle /\ GuardInit /\ VecIdle /\ ResIdle

NextGuard == GuardCall

SpecGuard == InitGuard /\ [][NextGuard]_vars

(***************************************************************************)
(* SpecVec: get_random_vec on every len up to MaxLen.                      *)
(***************************************************************************)
InitVec ==
    /\ MainIdle /\ GuardInit /\ ResIdle
    /\ vec_len \in 0..MaxLen
    /\ vec_arr \in ArraySamples
    /\ vec_out = <<>>
    /\ vec_called = FALSE

VecCall ==
    /\ ~vec_called
    /\ vec_out' = get_random_vec(vec_arr, vec_len)
    /\ vec_called' = TRUE
    /\ UNCHANGED <<vec_len, vec_arr, main_vars, guard_vars, res_vars>>

NextVec == VecCall

SpecVec == InitVec /\ [][NextVec]_vars

(***************************************************************************)
(* SpecResult: the methods of MyResult.  is_ok and is_err borrow the       *)
(* value; unwrap, unwrap_err and the conversion take it by value, so at    *)
(* most one of them is called.                                             *)
(***************************************************************************)
Errors == {ConsecutiveRandom, Unit}

MyResultValues ==
    {MyOk(v) : v \in Elems \cup {Unit}} \cup {MyErr(e) : e \in Errors}

InitResult ==
    /\ MainIdle /\ GuardInit /\ VecIdle
    /\ res \in MyResultValues
    /\ res_moved = FALSE
    /\ res_out = [m \in {"is_ok", "is_err", "unwrap", "unwrap_err", "into"}
                    |-> NotCalled]

CallIsOk ==
    /\ ~res_moved
    /\ res_out' = [res_out EXCEPT !["is_ok"] = Return(is_ok(res))]
    /\ UNCHANGED <<res, res_moved, main_vars, guard_vars, vec_vars>>

CallIsErr ==
    /\ ~res_moved
    /\ res_out' = [res_out EXCEPT !["is_err"] = Return(is_err(res))]
    /\ UNCHANGED <<res, res_moved, main_vars, guard_vars, vec_vars>>

CallUnwrap ==
    /\ ~res_moved
    /\ res_out' = [res_out EXCEPT !["unwrap"] = unwrap(res)]
    /\ res_moved' = TRUE
    /\ UNCHANGED <<res, main_vars, guard_vars, vec_vars>>

CallUnwrapErr ==
    /\ ~res_moved
    /\ res_out' = [res_out EXCEPT !["unwrap_err"] = unwrap_err(res)]
    /\ res_moved' = TRUE
    /\ UNCHANGED <<res, main_vars, guard_vars, vec_vars>>

CallInto ==
    /\ ~res_moved
    /\ res_out' = [res_out EXCEPT !["into"] = Return(from(res))]
    /\ res_moved' = TRUE
    /\ UNCHANGED <<res, main_vars, guard_vars, vec_vars>>

NextResult == CallIsOk \/ CallIsErr \/ CallUnwrap \/ CallUnwrapErr \/ CallInto

SpecResult == InitResult /\ [][NextResult]_vars

(***************************************************************************)
(* The claims.  Len(draws) is the number of calls made so far while it is  *)
(* below MaxHist; Last(draws) is the value the latest call drew.           *)
(***************************************************************************)
Prev(s) == s[Len(s) - 1]

\* C1: after every call of RandoB::get_random_item, the first included,
\* last_item is non-empty and holds the value that call drew.
C1_LastItemIsLatestDraw ==
    Len(draws) >= 1 => rando_b.last_item = Some(Last(draws))

\* C2: every call after the first returns Err(ConsecutiveRandom) exactly
\* when its draw equals the draw of the call before it, and otherwise Ok
\* of its draw.
C2_FailureIffConsecutiveDuplicate ==
    Len(draws) >= 2 =>
        Last(results) = IF Last(draws) = Prev(draws)
                        THEN MyErr(ConsecutiveRandom)
                        ELSE MyOk(Last(draws))

\* C3: the first call on a new RandoB returns Ok of the value it drew,
\* whatever that value is.
C3_FirstCallSucceeds ==
    Len(draws) = 1 => results[1] = MyOk(draws[1])

C3_Witness ==
    /\ Len(draws) = 1
    /\ draws[1] = "a"
    /\ results[1] = MyOk("a")

\* C4: main goes on looping after every Ok, stops only on an Err, and then
\* exits with the failure status; it never exits with the success status.
\* The last conjunct applies the loop body to every Err value.
C4_DriverStopsOnlyOnFailure ==
    /\ exit_code # "SUCCESS"
    /\ pc = "exit" =>
          /\ exit_code = "FAILURE"
          /\ Len(results) >= 1
          /\ Last(results).variant = "MyResult::Err"
    /\ (Len(results) >= 1 /\ Last(results).variant = "MyResult::Ok") =>
          /\ pc = "loop"
          /\ exit_code = "none"
          /\ printed = <<"RandoB says", Last(results).payload>>
    /\ \A e \in Errors :
          /\ main_iteration(MyErr(e)).pc = "exit"
          /\ main_iteration(MyErr(e)).exit_code = "FAILURE"

C4_Witness ==
    /\ pc = "loop"
    /\ Len(results) >= 2
    /\ Last(results).variant = "MyResult::Ok"
    /\ Prev(results).variant = "MyResult::Ok"

\* C5: get_random_vec(len) returns exactly min(len, 32) elements.
C5_VecLengthIsMinOfLenAnd32 ==
    vec_called => Len(vec_out) = Min(vec_len, 32)

C5_Witness ==
    /\ vec_called
    /\ vec_len > 32
    /\ Len(vec_out) = 32

C7_ConversionPreservesVariantAndPayload ==
    /\ res_out["into"] # NotCalled =>
          /\ \A v \in Elems \cup {Unit} :
                res = MyOk(v) => res_out["into"] = Return(HostOk(v))
          /\ \A e \in Errors :
                res = MyErr(e) => res_out["into"] = Return(HostErr(e))
    /\ res_out["is_ok"] # NotCalled =>
          res_out["is_ok"] = Return(\E v \in Elems \cup {Unit} : res = MyOk(v))
    /\ res_out["is_err"] # NotCalled =>
          res_out["is_err"] = Return(\E e \in Errors : res = MyErr(e))

C7_Witness ==
    /\ res = MyErr(ConsecutiveRandom)
    /\ res_out["into"] = Return(HostErr(ConsecutiveRandom))
    /\ res_out["is_ok"] = Return(FALSE)
    /\ res_out["is_err"] = Return(TRUE)

\* C8: unwrap of an Err panics with "attempting to unwrap a nonexistent
\* value", unwrap of Ok(v) returns v, and unwrap_err of an Ok panics.
C8_UnwrapOfWrongVariantPanics ==
    /\ res_out["unwrap"] # NotCalled =>
          /\ \A e \in Errors :
                res = MyErr(e) =>
                    res_out["unwrap"] =
                        Panic("attempting to unwrap a nonexistent value")
          /\ \A v \in Elems \cup {Unit} :
                res = MyOk(v) => res_out["unwrap"] = Return(v)
    /\ res_out["unwrap_err"] # NotCalled =>
          \A v \in Elems \cup {Unit} :
                res = MyOk(v) => res_out["unwrap_err"].kind = "panic"

C8_Witness ==
    /\ res = MyErr(Unit)
    /\ res_out["unwrap"] = Panic("attempting to unwrap a nonexistent value")

\* C9: a new RandoB is Fresh (last_item empty); after its first call, and
\* after every later one, it is Primed (last_item non-empty).
C9_FreshLeftOnFirstCall ==
    /\ Len(draws) = 0 => is_none(rando_b.last_item)
    /\ Len(draws) >= 1 => is_some(rando_b.last_item)

\* C10: when a draw equal to the previous one is not avoided forever, the
\* loop of main eventually gets an Err and main exits.
C10_DriverEventuallyStops == <>(pc = "exit")

====
